---- MODULE Spec2Model ----
(***************************************************************************)
(* Pelotonnes (src/src/main.py): the record normalizer                     *)
(* (process_workouts_df) and the aggregation engine (Aggregation), run by  *)
(* the upload page (render_upload_workouts) over an uploaded workouts      *)
(* table (Spec), and the pages of main over one session (SessionSpec).     *)
(*                                                                         *)
(* Values.  A cell of a table is a tuple:                                  *)
(*   a float         <<n, d>>   the number n/d (d > 0, lowest terms),      *)
(*                   <<0, 0>>   NaN (pandas' missing value),               *)
(*                   <<1, 0>>   +infinity;                                 *)
(*   a string        <<"s">>;   a missing string cell is NaN, as read_csv  *)
(*                              leaves it;                                 *)
(*   a timestamp     <<y, m, d>> (the UTC calendar date of the instant),   *)
(*                   << >>      NaT;                                        *)
(*   a date          <<o>>      the proleptic Gregorian ordinal of the day *)
(*                              (datetime.date.toordinal);                 *)
(*   c_month         <<yyyymm>> the digits of the string "YYYY-MM";        *)
(*   c_year          <<y>>.                                                *)
(* The numbers of a table are small naturals, so the float arithmetic of   *)
(* the code is modelled exactly (no rounding happens on such values).      *)
(***************************************************************************)
EXTENDS Integers, Sequences, FiniteSets, TLC

VARIABLES
    raw_workouts,    \* the file in the uploader: what pd.read_csv returns
    frames,          \* the DataFrame objects alive: object id -> DataFrame
    session_state,   \* st.session_state
    pc,              \* position of the script run
    error,           \* the exception that ended the run, or NoError
    input_frame      \* the DataFrame object process_workouts_df was given
                     \* and what it held then (a history variable)

vars == <<raw_workouts, frames, session_state, pc, error, input_frame>>

----------------------------------------------------------------------------
(* Bounds of the model.                                                    *)

\* the largest number a numeric cell of an uploaded table holds
MaxVal == 2
\* the largest number of rows of the uniform and the instructor tables
MaxRows == 3
\* the number of calendar years, from FirstYear on, timestamps are drawn from
MaxYears == 2
\* timestamps are drawn from the first and the last DateSpan days of a year
DateSpan == 2
\* the first calendar year timestamps are drawn from
FirstYear == 2018

----------------------------------------------------------------------------
(* Cells.                                                                  *)

NaN == <<0, 0>>
Inf == <<1, 0>>
NaT == << >>

\* pd.isna / pd.isnull of a scalar
isna(v) == v = NaN \/ v = NaT

RECURSIVE GCD(_, _)
GCD(a, b) == IF b = 0 THEN a ELSE GCD(b, a % b)

\* the float n/d of naturals n, d as numpy divides: x/0 is inf, 0/0 is NaN
Quotient(n, d) ==
    IF d = 0 THEN (IF n = 0 THEN NaN ELSE Inf)
    ELSE LET g == GCD(n, d) IN <<n \div g, d \div g>>

\* a natural as a float
Float(n) == <<n, 1>>

\* a Series divided by a Series, at one index: NaN if either side is NaN
TrueDiv(a, b) ==
    IF isna(a) \/ isna(b) THEN NaN
    ELSE IF a[2] = 0 \/ b[2] = 0 THEN NaN \* not reached: operands are finite
    ELSE Quotient(a[1] * b[2], a[2] * b[1])

----------------------------------------------------------------------------
(* The calendar: datetime.date arithmetic of the standard library, which   *)
(* the c_week derivation calls.                                            *)

IsLeap(y) == (y % 4 = 0) /\ ((y % 100 # 0) \/ (y % 400 = 0))

DaysBeforeYear(y) ==
    LET p == y - 1 IN p * 365 + (p \div 4) - (p \div 100) + (p \div 400)

DaysInMonth(y, m) ==
    IF m = 2 THEN (IF IsLeap(y) THEN 29 ELSE 28)
    ELSE IF m \in {4, 6, 9, 11} THEN 30 ELSE 31

RECURSIVE DaysBeforeMonth(_, _)
DaysBeforeMonth(y, m) ==
    IF m = 1 THEN 0 ELSE DaysBeforeMonth(y, m - 1) + DaysInMonth(y, m - 1)

\* date(y, m, d).toordinal()
ToOrdinal(y, m, d) == DaysBeforeYear(y) + DaysBeforeMonth(y, m) + d

\* date.weekday() of an ordinal: Monday is 0
Weekday(o) == (o + 6) % 7

\* the Monday of ISO week 1 of year y (datetime._isoweek1monday)
IsoWeek1Monday(y) ==
    LET firstday == ToOrdinal(y, 1, 1)
        firstweekday == Weekday(firstday)
        week1monday == firstday - firstweekday
    IN IF firstweekday > 3 THEN week1monday + 7 ELSE week1monday

\* x.isocalendar()[1]: the ISO week number of the date
IsoWeek(y, m, d) ==
    LET today == ToOrdinal(y, m, d)
        week == (today - IsoWeek1Monday(y)) \div 7
    IN IF today < IsoWeek1Monday(y)
       THEN ((today - IsoWeek1Monday(y - 1)) \div 7) + 1
       ELSE IF week >= 52 /\ today >= IsoWeek1Monday(y + 1) THEN 1
       ELSE week + 1

\* datetime.strptime("<y>-<w>-1", "%Y-%W-%w").date(): the Monday of week w
\* of year y, where week 1 starts at the first Monday of the year
\* (_strptime._calc_julian_from_U_or_W with day_of_week 0)
StrptimeYearWeekMonday(y, w) ==
    LET first_weekday == Weekday(ToOrdinal(y, 1, 1))
        week_0_length == (7 - first_weekday) % 7
        julian == IF w = 0 THEN 1 - first_weekday
                  ELSE 1 + week_0_length + 7 * (w - 1)
    IN IF julian <= 0
       THEN (julian + (IF IsLeap(y - 1) THEN 366 ELSE 365) - 1)
                + ToOrdinal(y - 1, 1, 1)
       ELSE (julian - 1) + ToOrdinal(y, 1, 1)

----------------------------------------------------------------------------
(* DataFrames: [columns: the column names, rows: the rows in index order,  *)
(* each a function from the column names to cells].                        *)

RawColumns ==
    {"Workout Timestamp", "Fitness Discipline", "Instructor Name",
     "Length (minutes)", "Distance (mi)", "Total Output", "Calories Burned",
     "Avg. Heartrate", "Avg. Speed (mph)", "Avg. Cadence (RPM)"}

\* df[name] = series: the column is added (or replaced) in place
WithColumn(df, name, series) ==
    [columns |-> df.columns \cup {name},
     rows |-> [i \in 1..Len(df.rows) |->
                 [c \in df.columns \cup {name} |->
                    IF c = name THEN series[i] ELSE df.rows[i][c]]]]

\* the mask of line 170
IsCycling(row) == row["Fitness Discipline"] = <<"Cycling">>

\* df[df["Fitness Discipline"] == "Cycling"]: a new DataFrame of the rows
\* the mask keeps
CyclingOnly(df) ==
    [columns |-> df.columns, rows |-> SelectSeq(df.rows, IsCycling)]

----------------------------------------------------------------------------
(* Exceptions.                                                             *)

NoError == [type |-> "none", arg |-> ""]
KeyError(name) == [type |-> "KeyError", arg |-> name]
\* 'float' object has no attribute 'replace'
AttributeError == [type |-> "AttributeError", arg |-> "replace"]
\* NaTType does not support isocalendar / strftime; int(nan)
ValueError == [type |-> "ValueError", arg |-> "NaT"]

----------------------------------------------------------------------------
(* The uploaded files the model draws from.                                *)

\* a timestamp string no date can be read from
Unparseable == <<0, 0, 0>>

Years == FirstYear..(FirstYear + MaxYears - 1)

\* the timestamps of the first and last DateSpan days of each year
Timestamps ==
    {<<y, 1, d>> : y \in Years, d \in 1..DateSpan}
        \cup {<<y, 12, d>> : y \in Years, d \in (32 - DateSpan)..31}

Opt == {NaN} \cup {Float(n) : n \in 0..MaxVal}

RawRow(ts, disc, instr, len, dist, out, cal, hr, speed, cad) ==
    [c \in RawColumns |->
        CASE c = "Workout Timestamp" -> ts
          [] c = "Fitness Discipline" -> disc
          [] c = "Instructor Name" -> instr
          [] c = "Length (minutes)" -> len
          [] c = "Distance (mi)" -> dist
          [] c = "Total Output" -> out
          [] c = "Calories Burned" -> cal
          [] c = "Avg. Heartrate" -> hr
          [] c = "Avg. Speed (mph)" -> speed
          [] c = "Avg. Cadence (RPM)" -> cad]

Frame(rows) == [columns |-> RawColumns, rows |-> rows]

\* rows whose length and metrics vary: a is the calories, speed and cadence
\* cell, b (missing, or the largest number) the output, heartrate and
\* distance cell
MixedRows ==
    {RawRow(<<FirstYear, 1, 1>>, <<"Cycling">>, <<"a">>, len, b, b, a, b, a, a) :
        len \in Opt, a \in Opt, b \in {NaN, Float(MaxVal)}}

MixedTables ==
    {Frame(<< >>)} \cup {Frame(<<r>>) : r \in MixedRows}
        \cup {Frame(<<r, s>>) : r \in MixedRows, s \in MixedRows}

\* n rows of the same length m and the same metric value v
UniformTables ==
    {Frame([i \in 1..n |->
        RawRow(<<FirstYear, 1, 1>>, <<"Cycling">>, <<"a">>, Float(m), Float(v),
               Float(v), Float(v), Float(v), Float(v), Float(v))]) :
        n \in 1..MaxRows, m \in 0..MaxVal, v \in 0..MaxVal}

\* rows whose instructor and discipline vary
InstructorRows ==
    {RawRow(<<FirstYear, 1, 1>>, disc, instr, Float(1), Float(1), Float(1),
            Float(1), Float(1), Float(1), Float(1)) :
        disc \in {<<"Cycling">>, <<"Running">>},
        instr \in {NaN, <<"a">>, <<"b">>}}

InstructorTables ==
    UNION {{Frame(rows) : rows \in [1..n -> InstructorRows]} : n \in 1..MaxRows}

\* rows whose timestamp varies: a date, an unparseable string, a missing cell
TimestampRows ==
    {RawRow(ts, <<"Cycling">>, <<"a">>, Float(1), Float(1), Float(1),
            Float(1), Float(1), Float(1), Float(1)) :
        ts \in Timestamps \cup {Unparseable, NaN}}

TimestampTables ==
    {Frame(<<r>>) : r \in TimestampRows}
        \cup {Frame(<<r, s>>) : r \in TimestampRows, s \in TimestampRows}

\* files that lack one column
MissingColumnTables ==
    {[columns |-> RawColumns \ {col},
      rows |-> [i \in 1..Len(rows) |-> [c \in RawColumns \ {col} |-> rows[i][c]]]] :
        col \in RawColumns,
        rows \in {<< >>,
                  <<RawRow(<<FirstYear, 1, 1>>, <<"Cycling">>, <<"a">>, Float(1),
                           Float(1), Float(1), Float(1), Float(1), Float(1),
                           Float(1))>>,
                  <<RawRow(<<FirstYear, 1, 1>>, <<"Cycling">>, <<"a">>, NaN,
                           Float(1), Float(1), Float(1), Float(1), Float(1),
                           Float(1))>>}}

\* lengths [30, 60, missing] with calories [300, 900, 500]
ExampleTable ==
    Frame(<<RawRow(<<FirstYear, 1, 1>>, <<"Cycling">>, <<"a">>, Float(30), NaN,
                   NaN, Float(300), NaN, NaN, NaN),
            RawRow(<<FirstYear, 1, 1>>, <<"Cycling">>, <<"a">>, Float(60), NaN,
                   NaN, Float(900), NaN, NaN, NaN),
            RawRow(<<FirstYear, 1, 1>>, <<"Cycling">>, <<"a">>, NaN, NaN,
                   NaN, Float(500), NaN, NaN, NaN)>>)

UploadedFiles ==
    MixedTables \cup UniformTables \cup InstructorTables \cup TimestampTables
        \cup MissingColumnTables \cup {ExampleTable}

----------------------------------------------------------------------------
(* The record normalizer: process_workouts_df, lines 95 to 123.            *)

\* parse_datetime, then pd.to_datetime(utc=True): the instant the string
\* denotes, NaT when dateparser reads none from it
parse_datetime(date_str) ==
    IF date_str = Unparseable THEN NaT ELSE date_str

c_day(x) == IF x = NaT THEN NaT ELSE <<ToOrdinal(x[1], x[2], x[3])>>

c_week(x) == <<StrptimeYearWeekMonday(x[1], IsoWeek(x[1], x[2], x[3]))>>

c_month(x) == <<x[1] * 100 + x[2]>>

c_year(x) == <<x[1]>>

\* Series / Series: the quotient row by row
c_calories_per_minute(row) ==
    TrueDiv(row["Calories Burned"], row["Length (minutes)"])

c_output_per_minute(row) ==
    TrueDiv(row["Total Output"], row["Length (minutes)"])

\* lines 102 to 105
WithDatetime(df) ==
    WithColumn(df, "c_datetime",
               [i \in 1..Len(df.rows) |-> parse_datetime(df.rows[i]["Workout Timestamp"])])
\* line 106: NaT.date() is NaT
WithDay(df) ==
    WithColumn(df, "c_day",
               [i \in 1..Len(df.rows) |-> c_day(df.rows[i]["c_datetime"])])
\* lines 107 to 111
WithWeek(df) ==
    WithColumn(df, "c_week",
               [i \in 1..Len(df.rows) |-> c_week(df.rows[i]["c_datetime"])])
\* lines 112 to 114
WithMonth(df) ==
    WithColumn(df, "c_month",
               [i \in 1..Len(df.rows) |-> c_month(df.rows[i]["c_datetime"])])
\* line 115
WithYear(df) ==
    WithColumn(df, "c_year",
               [i \in 1..Len(df.rows) |-> c_year(df.rows[i]["c_datetime"])])

\* lines 118 to 120 as an in-place division of the calories column
WithCaloriesPerMinuteInPlace(df) ==
    WithColumn(df, "Calories Burned",
               [i \in 1..Len(df.rows) |-> c_calories_per_minute(df.rows[i])])

\* lines 118 to 120
WithCaloriesPerMinute(df) ==
    WithColumn(df, "c_calories_per_minute",
               [i \in 1..Len(df.rows) |-> c_calories_per_minute(df.rows[i])])
\* lines 121 to 123
WithOutputPerMinute(df) ==
    WithColumn(df, "c_output_per_minute",
               [i \in 1..Len(df.rows) |-> c_output_per_minute(df.rows[i])])

\* the columns the normalizer derives
DerivedColumns ==
    {"c_datetime", "c_day", "c_week", "c_month", "c_year",
     "c_calories_per_minute", "c_output_per_minute"}

\* some c_datetime is NaT: NaT has no isocalendar and no strftime, and its
\* year is nan, so lines 107 to 115 raise ValueError on it
HasNaT(df) == \E i \in 1..Len(df.rows) : df.rows[i]["c_datetime"] = NaT

\* some timestamp cell is missing (a float nan): date_str.replace of line 99
\* raises AttributeError on it
HasMissingTimestamp(df) ==
    \E i \in 1..Len(df.rows) : df.rows[i]["Workout Timestamp"] = NaN

\* df[c] raises KeyError
Lacks(df, c) == c \notin df.columns

\* The DataFrame as the normalizer leaves it, and the exception it raised.
\* Each column assignment changes the DataFrame in place, so an exception
\* leaves the columns assigned before it.
Normalize(df) ==
    IF Lacks(df, "Workout Timestamp")
    THEN [df |-> df, error |-> KeyError("Workout Timestamp")]
    ELSE IF HasMissingTimestamp(df)
    THEN [df |-> df, error |-> AttributeError]
    ELSE
    LET d2 == WithDay(WithDatetime(df))
    IN IF HasNaT(d2) THEN [df |-> d2, error |-> ValueError]
    ELSE
    LET d5 == WithYear(WithMonth(WithWeek(d2)))
    IN IF Lacks(d5, "Calories Burned")
       THEN [df |-> d5, error |-> KeyError("Calories Burned")]
       ELSE IF Lacks(d5, "Length (minutes)")
       THEN [df |-> d5, error |-> KeyError("Length (minutes)")]
       ELSE
       LET d6 == WithCaloriesPerMinute(d5)
       IN IF Lacks(d6, "Total Output")
          THEN [df |-> d6, error |-> KeyError("Total Output")]
          ELSE [df |-> WithOutputPerMinute(d6), error |-> NoError]

----------------------------------------------------------------------------
(* The aggregation engine: Aggregation.__init__.                           *)

\* group_by=None; "if group_by:" takes the empty string the same way
None == ""

\* d[k] of a defaultdict(lambda: 0)
Get(d, k) == IF k \in DOMAIN d THEN d[k] ELSE 0

\* d[k] += x
Add(d, k, x) ==
    [j \in DOMAIN d \cup {k} |-> IF j = k THEN Get(d, k) + x ELSE d[j]]

\* the number a present cell of an uploaded table holds
Val(cell) == cell[1]

AccumulatorNames ==
    {"total_workouts", "total_time", "total_distance", "total_output",
     "total_output_minutes", "total_calories", "total_calories_minutes",
     "total_hr", "total_hr_minutes", "total_speed", "total_speed_minutes",
     "total_cadence", "total_cadence_minutes"}

\* the accumulators before the loop, and no exception raised
EmptyAccumulators ==
    [a \in AccumulatorNames \cup {"err"} |->
        IF a = "err" THEN NoError ELSE << >>]

\* row[col] raises KeyError
Raise(acc, col) == [acc EXCEPT !["err"] = KeyError(col)]

Length(row) == Val(row["Length (minutes)"])

\* line 42
CountWorkout(acc, key) ==
    [acc EXCEPT !["total_workouts"] = Add(@, key, 1)]

\* lines 43 to 44
AddDistance(acc, row, key) ==
    IF acc["err"] # NoError THEN acc
    ELSE IF "Distance (mi)" \notin DOMAIN row THEN Raise(acc, "Distance (mi)")
    ELSE IF isna(row["Distance (mi)"]) THEN acc
    ELSE [acc EXCEPT !["total_distance"] = Add(@, key, Val(row["Distance (mi)"]))]

\* line 46
AddTime(acc, row, key) ==
    [acc EXCEPT !["total_time"] = Add(@, key, Length(row))]

\* lines 49 to 51
AddOutput(acc, row, key) ==
    IF acc["err"] # NoError THEN acc
    ELSE IF "Total Output" \notin DOMAIN row THEN Raise(acc, "Total Output")
    ELSE IF isna(row["Total Output"]) THEN acc
    ELSE [acc EXCEPT !["total_output"] = Add(@, key, Val(row["Total Output"])),
                     !["total_output_minutes"] = Add(@, key, Length(row))]

\* AddCalories with the calories added to the minutes as well (a slip of
\* copy and paste in line 54)
AddCaloriesAsMinutes(acc, row, key) ==
    IF acc["err"] # NoError THEN acc
    ELSE IF "Calories Burned" \notin DOMAIN row THEN Raise(acc, "Calories Burned")
    ELSE IF isna(row["Calories Burned"]) THEN acc
    ELSE [acc EXCEPT !["total_calories"] = Add(@, key, Val(row["Calories Burned"])),
                     !["total_calories_minutes"] =
                         Add(@, key, Val(row["Calories Burned"]))]

\* lines 52 to 54
AddCalories(acc, row, key) ==
    IF acc["err"] # NoError THEN acc
    ELSE IF "Calories Burned" \notin DOMAIN row THEN Raise(acc, "Calories Burned")
    ELSE IF isna(row["Calories Burned"]) THEN acc
    ELSE [acc EXCEPT !["total_calories"] = Add(@, key, Val(row["Calories Burned"])),
                     !["total_calories_minutes"] = Add(@, key, Length(row))]

\* AddHeartrate with the heartrate summed unweighted
AddHeartrateUnweighted(acc, row, key) ==
    IF acc["err"] # NoError THEN acc
    ELSE IF "Avg. Heartrate" \notin DOMAIN row THEN Raise(acc, "Avg. Heartrate")
    ELSE IF isna(row["Avg. Heartrate"]) THEN acc
    ELSE [acc EXCEPT !["total_hr"] = Add(@, key, Val(row["Avg. Heartrate"])),
                     !["total_hr_minutes"] = Add(@, key, Length(row))]

\* lines 55 to 57
AddHeartrate(acc, row, key) ==
    IF acc["err"] # NoError THEN acc
    ELSE IF "Avg. Heartrate" \notin DOMAIN row THEN Raise(acc, "Avg. Heartrate")
    ELSE IF isna(row["Avg. Heartrate"]) THEN acc
    ELSE [acc EXCEPT !["total_hr"] =
                         Add(@, key, Length(row) * Val(row["Avg. Heartrate"])),
                     !["total_hr_minutes"] = Add(@, key, Length(row))]

\* lines 58 to 62
AddSpeed(acc, row, key) ==
    IF acc["err"] # NoError THEN acc
    ELSE IF "Avg. Speed (mph)" \notin DOMAIN row THEN Raise(acc, "Avg. Speed (mph)")
    ELSE IF isna(row["Avg. Speed (mph)"]) THEN acc
    ELSE [acc EXCEPT !["total_speed"] =
                         Add(@, key, Length(row) * Val(row["Avg. Speed (mph)"])),
                     !["total_speed_minutes"] = Add(@, key, Length(row))]

\* lines 63 to 67
AddCadence(acc, row, key) ==
    IF acc["err"] # NoError THEN acc
    ELSE IF "Avg. Cadence (RPM)" \notin DOMAIN row
    THEN Raise(acc, "Avg. Cadence (RPM)")
    ELSE IF isna(row["Avg. Cadence (RPM)"]) THEN acc
    ELSE [acc EXCEPT !["total_cadence"] =
                         Add(@, key, Length(row) * Val(row["Avg. Cadence (RPM)"])),
                     !["total_cadence_minutes"] = Add(@, key, Length(row))]

\* AddWeighted without the test of line 45 that the length is present
AddWeightedUnguarded(acc, row, key) ==
    IF acc["err"] # NoError THEN acc
    ELSE IF "Length (minutes)" \notin DOMAIN row
    THEN Raise(acc, "Length (minutes)")
    ELSE AddCadence(
            AddSpeed(
              AddHeartrate(
                AddCalories(
                  AddOutput(AddTime(acc, row, key), row, key), row, key),
                row, key),
              row, key),
            row, key)

\* lines 45 to 67: the sums that are weighted by the workout length
AddWeighted(acc, row, key) ==
    IF acc["err"] # NoError THEN acc
    ELSE IF "Length (minutes)" \notin DOMAIN row
    THEN Raise(acc, "Length (minutes)")
    ELSE IF isna(row["Length (minutes)"]) THEN acc
    ELSE AddCadence(
            AddSpeed(
              AddHeartrate(
                AddCalories(
                  AddOutput(AddTime(acc, row, key), row, key), row, key),
                row, key),
              row, key),
            row, key)

\* SkipRow without the test of line 36: no row is skipped
SkipRowNever(row, group_by) == FALSE

\* lines 32 to 39: the row is skipped when its key is null
SkipRow(row, group_by) == group_by # None /\ isna(row[group_by])

GroupKey(row, group_by) ==
    IF group_by # None THEN row[group_by] ELSE <<"All Time">>

\* lines 31 to 67: one iteration of the loop
AccumulateRow(acc, row, group_by) ==
    IF acc["err"] # NoError THEN acc
    ELSE IF group_by # None /\ group_by \notin DOMAIN row THEN Raise(acc, group_by)
    ELSE IF SkipRow(row, group_by) THEN acc
    ELSE LET key == GroupKey(row, group_by)
         IN AddWeighted(AddDistance(CountWorkout(acc, key), row, key), row, key)

\* line 30: the loop over the rows from row i on
RECURSIVE Accumulate(_, _, _, _)
Accumulate(acc, rows, i, group_by) ==
    IF i > Len(rows) THEN acc
    ELSE Accumulate(AccumulateRow(acc, rows[i], group_by), rows, i + 1, group_by)

SummaryColumns ==
    {"Total Workouts", "Total Minutes", "Total Distance", "Total Output",
     "Total Calories", "Output per Minute", "Calories per Minute",
     "Avg. Heartrate", "Avg. Speed (mph)", "Avg. Cadence (RPM)"}

\* pd.Series(d) at index g of the DataFrame: NaN where the Series has no g
SeriesAt(d, g) == IF g \in DOMAIN d THEN Float(d[g]) ELSE NaN

\* (pd.Series(n) / pd.Series(d)) at index g
RatioAt(n, d, g) == TrueDiv(SeriesAt(n, g), SeriesAt(d, g))

\* lines 69 to 86: the DataFrame of the Series, indexed by the union of
\* their keys
AggregatedDf(acc) ==
    [g \in UNION {DOMAIN acc[a] : a \in AccumulatorNames} |->
        [c \in SummaryColumns |->
            CASE c = "Total Workouts" -> SeriesAt(acc["total_workouts"], g)
              [] c = "Total Minutes" -> SeriesAt(acc["total_time"], g)
              [] c = "Total Distance" -> SeriesAt(acc["total_distance"], g)
              [] c = "Total Output" -> SeriesAt(acc["total_output"], g)
              [] c = "Total Calories" -> SeriesAt(acc["total_calories"], g)
              [] c = "Output per Minute" ->
                    RatioAt(acc["total_output"], acc["total_output_minutes"], g)
              [] c = "Calories per Minute" ->
                    RatioAt(acc["total_calories"], acc["total_calories_minutes"], g)
              [] c = "Avg. Heartrate" ->
                    RatioAt(acc["total_hr"], acc["total_hr_minutes"], g)
              [] c = "Avg. Speed (mph)" ->
                    RatioAt(acc["total_speed"], acc["total_speed_minutes"], g)
              [] c = "Avg. Cadence (RPM)" ->
                    RatioAt(acc["total_cadence"], acc["total_cadence_minutes"], g)]]

\* Aggregation(workouts_df, group_by): the object built, or the exception
Aggregation(workouts_df, group_by) ==
    LET acc == Accumulate(EmptyAccumulators, workouts_df.rows, 1, group_by)
    IN [error |-> acc["err"],
        group_by |-> group_by,
        aggregated_df |-> IF acc["err"] = NoError THEN AggregatedDf(acc) ELSE << >>]

----------------------------------------------------------------------------
(* The script run of the upload page with a file in the uploader.          *)

\* lines 127 to 143: the aggregations in the order they are computed
Requests ==
    <<[key |-> "workouts_aggregation_all_time", group_by |-> None],
      [key |-> "workouts_aggregation_by_year", group_by |-> "c_year"],
      [key |-> "workouts_aggregation_by_month", group_by |-> "c_month"],
      [key |-> "workouts_aggregation_by_week", group_by |-> "c_week"],
      [key |-> "workouts_aggregation_by_day", group_by |-> "c_day"],
      [key |-> "workouts_aggregation_by_instructor", group_by |-> "Instructor Name"],
      [key |-> "workouts_aggregation_by_class_length",
       group_by |-> "Length (minutes)"]>>

\* st.session_state[k] = v
Put(s, k, v) == [j \in DOMAIN s \cup {k} |-> IF j = k THEN v ELSE s[j]]

\* before process_workouts_df is called: no object, no DataFrame
NoFrame == [id |-> 0, df |-> [columns |-> {}, rows |-> << >>]]

Init ==
    /\ raw_workouts \in UploadedFiles
    /\ frames = << >>
    /\ session_state = << >>
    /\ pc = "upload"
    /\ error = NoError
    /\ input_frame = NoFrame

\* render_upload_workouts, lines 168 to 171: the file is read (object 1),
\* the cycling rows are selected into a new DataFrame (object 2), which is
\* put on the session state
Upload ==
    /\ pc = "upload"
    /\ IF Lacks(raw_workouts, "Fitness Discipline")
       THEN /\ frames' = <<raw_workouts>>
            /\ error' = KeyError("Fitness Discipline")
            /\ pc' = "failed"
            /\ UNCHANGED session_state
       ELSE /\ frames' = <<raw_workouts, CyclingOnly(raw_workouts)>>
            /\ session_state' = Put(session_state, "workouts_df", 2)
            /\ pc' = "normalize"
            /\ UNCHANGED error
    /\ UNCHANGED <<raw_workouts, input_frame>>

\* process_workouts_df, lines 91 to 126: the DataFrame on the session state
\* is normalized in place and put on the session state again
NormalizeStep ==
    /\ pc = "normalize"
    /\ "workouts_df" \in DOMAIN session_state
    /\ LET workouts_df == session_state["workouts_df"]
           out == Normalize(frames[workouts_df])
       IN /\ input_frame' = [id |-> workouts_df, df |-> frames[workouts_df]]
          /\ frames' = [frames EXCEPT ![workouts_df] = out.df]
          /\ error' = out.error
          /\ IF out.error = NoError
             THEN /\ session_state' = Put(session_state, "workouts_df", workouts_df)
                  /\ pc' = Requests[1].key
             ELSE /\ pc' = "failed"
                  /\ UNCHANGED session_state
    /\ UNCHANGED raw_workouts

\* process_workouts_df, lines 127 to 143: the i-th aggregation is computed
\* and put on the session state; an exception ends the run
AggregateStep(i) ==
    /\ pc = Requests[i].key
    /\ LET workouts_df == frames[session_state["workouts_df"]]
           out == Aggregation(workouts_df, Requests[i].group_by)
       IN IF out.error = NoError
          THEN /\ session_state' =
                    Put(session_state, Requests[i].key,
                        [group_by |-> out.group_by,
                         aggregated_df |-> out.aggregated_df])
               /\ pc' = IF i < Len(Requests) THEN Requests[i + 1].key ELSE "done"
               /\ UNCHANGED error
          ELSE /\ error' = out.error
               /\ pc' = "failed"
               /\ UNCHANGED session_state
    /\ UNCHANGED <<raw_workouts, frames, input_frame>>

Next ==
    \/ Upload
    \/ NormalizeStep
    \/ \E i \in 1..Len(Requests) : AggregateStep(i)

Spec == Init /\ [][Next]_vars

----------------------------------------------------------------------------
(* The session: main, lines 560 to 578, run once for every interaction of  *)
(* the user with the sidebar or the uploader.  st.session_state lives as   *)
(* long as the session, across the runs and across a run an exception      *)
(* ended.  Each action is one whole run of the script.                     *)

\* the uploader holds no file: st.file_uploader returns None
NoFile == [columns |-> {}, rows |-> << >>]

\* the files a session uploads: the example, files of no or one record that
\* lack a column, and one-record files whose timestamp is unparseable or
\* missing
SessionFiles ==
    {ExampleTable}
        \cup {f \in MissingColumnTables : Len(f.rows) <= 1}
        \cup {Frame(<<r>>) : r \in {t \in TimestampRows :
                                        t["Workout Timestamp"] \notin Timestamps}}

\* pages of main, lines 564 to 573, in the order of the sidebar
Pages ==
    <<"Upload Workouts", "All-Time Stats", "Stats By Instructor",
      "Stats By Year", "Stats By Month", "Stats By Week", "Stats By Day",
      "About">>

\* render_stats_by_year, _month, _week, _day: the entry each one reads
TimePages ==
    [p \in {"Stats By Year", "Stats By Month", "Stats By Week", "Stats By Day"} |->
        CASE p = "Stats By Year" -> "workouts_aggregation_by_year"
          [] p = "Stats By Month" -> "workouts_aggregation_by_month"
          [] p = "Stats By Week" -> "workouts_aggregation_by_week"
          [] p = "Stats By Day" -> "workouts_aggregation_by_day"]

\* process_workouts_df, lines 127 to 143, from request i on: the session
\* state with the aggregations stored before an exception, and the exception
RECURSIVE StoreAggregations(_, _, _)
StoreAggregations(i, df, s) ==
    IF i > Len(Requests) THEN [session_state |-> s, error |-> NoError]
    ELSE LET out == Aggregation(df, Requests[i].group_by)
         IN IF out.error # NoError
            THEN [session_state |-> s, error |-> out.error]
            ELSE StoreAggregations(
                    i + 1, df,
                    Put(s, Requests[i].key,
                        [group_by |-> out.group_by,
                         aggregated_df |-> out.aggregated_df]))

\* process_workouts_df, lines 89 to 143, as one call: the objects and the
\* session state it leaves, and the exception it raised
process_workouts_df(f, s) ==
    LET workouts_df == s["workouts_df"]
        out == Normalize(f[workouts_df])
        normalized == [f EXCEPT ![workouts_df] = out.df]
    IN IF out.error # NoError
       THEN [frames |-> normalized, session_state |-> s, error |-> out.error]
       ELSE [frames |-> normalized] @@
            StoreAggregations(1, out.df, Put(s, "workouts_df", workouts_df))

\* st.session_state[k] of an entry that may be missing: the exception
Read(s, k) == IF k \in DOMAIN s THEN NoError ELSE KeyError(k)

\* the exception of reading the entries ks in this order: that of the first
\* missing one
RECURSIVE ReadAll(_, _)
ReadAll(s, ks) ==
    IF ks = << >> THEN NoError
    ELSE IF Read(s, Head(ks)) # NoError THEN Read(s, Head(ks))
    ELSE ReadAll(s, Tail(ks))

\* where the run ended: by an exception, or at the end of the page
Ended(e) == IF e = NoError THEN "done" ELSE "failed"

\* main, lines 574 and 575: the sidebar shows its first option until the
\* user selects another, and the selection is put on the session state
Selectable(page) ==
    "app_mode" \in DOMAIN session_state \/ page = Pages[1]

SessionInit ==
    /\ raw_workouts = NoFile
    /\ frames = << >>
    /\ session_state = << >>
    /\ pc = "idle"
    /\ error = NoError
    /\ input_frame = NoFrame

\* render_upload_workouts, lines 146 to 181.  The uploader holds a file
\* only if the page was on screen for the user to give it one.
RenderUploadWorkouts ==
    /\ Selectable(Pages[1])
    /\ \E file \in SessionFiles \cup {NoFile} :
        /\ file # NoFile =>
              /\ "app_mode" \in DOMAIN session_state
              /\ session_state["app_mode"] = Pages[1]
        /\ raw_workouts' = file
        /\ LET s == Put(session_state, "app_mode", Pages[1])
           IN IF file = NoFile
              THEN /\ session_state' = s
                   /\ error' = NoError
                   /\ pc' = "done"
                   /\ UNCHANGED <<frames, input_frame>>
              ELSE IF Lacks(file, "Fitness Discipline")
              THEN /\ session_state' = s
                   /\ error' = KeyError("Fitness Discipline")
                   /\ pc' = "failed"
                   /\ UNCHANGED <<frames, input_frame>>
              ELSE LET out == process_workouts_df(
                                 <<file, CyclingOnly(file)>>,
                                 Put(s, "workouts_df", 2))
                   IN /\ input_frame' = [id |-> 2, df |-> CyclingOnly(file)]
                      /\ frames' = out.frames
                      /\ session_state' = out.session_state
                      /\ error' = out.error
                      /\ pc' = Ended(out.error)

\* render_all_time_stats, lines 184 to 226
RenderAllTimeStats ==
    /\ Selectable("All-Time Stats")
    /\ session_state' = Put(session_state, "app_mode", "All-Time Stats")
    /\ raw_workouts' = NoFile
    /\ IF "workouts_df" \notin DOMAIN session_state
       THEN pc' = "notice" /\ error' = NoError
       ELSE LET e == ReadAll(session_state,
                             <<"workouts_aggregation_all_time",
                               "workouts_aggregation_by_instructor">>)
            IN pc' = Ended(e) /\ error' = e
    /\ UNCHANGED <<frames, input_frame>>

\* render_stats_by_instructor, lines 345 to 543
RenderStatsByInstructor ==
    /\ Selectable("Stats By Instructor")
    /\ session_state' = Put(session_state, "app_mode", "Stats By Instructor")
    /\ raw_workouts' = NoFile
    /\ IF "workouts_df" \notin DOMAIN session_state
       THEN pc' = "notice" /\ error' = NoError
       ELSE LET e == Read(session_state, "workouts_aggregation_by_instructor")
            IN pc' = Ended(e) /\ error' = e
    /\ UNCHANGED <<frames, input_frame>>

\* render_stats_by_year, _month, _week, _day, lines 317 to 342: the entry is
\* read for the argument of render_stats_by_time, lines 229 to 315, which
\* then looks for the workouts
RenderStatsByTime(page) ==
    /\ Selectable(page)
    /\ session_state' = Put(session_state, "app_mode", page)
    /\ raw_workouts' = NoFile
    /\ LET e == Read(session_state, TimePages[page])
       IN IF e # NoError THEN pc' = "failed" /\ error' = e
          ELSE IF "workouts_df" \notin DOMAIN session_state
          THEN pc' = "notice" /\ error' = NoError
          ELSE pc' = "done" /\ error' = NoError
    /\ UNCHANGED <<frames, input_frame>>

\* render_about, lines 546 to 557
RenderAbout ==
    /\ Selectable("About")
    /\ session_state' = Put(session_state, "app_mode", "About")
    /\ raw_workouts' = NoFile
    /\ pc' = "done"
    /\ error' = NoError
    /\ UNCHANGED <<frames, input_frame>>

SessionNext ==
    \/ RenderUploadWorkouts
    \/ RenderAllTimeStats
    \/ RenderStatsByInstructor
    \/ \E page \in DOMAIN TimePages : RenderStatsByTime(page)
    \/ RenderAbout

SessionSpec == SessionInit /\ [][SessionNext]_vars

----------------------------------------------------------------------------
(* What the claims speak of.                                               *)

AggregationKeys == {Requests[i].key : i \in 1..Len(Requests)}

\* the aggregations on the session state
Computed == AggregationKeys \cap DOMAIN session_state

\* the records the aggregations were computed from
Records == frames[session_state["workouts_df"]].rows

RECURSIVE Sum(_, _)
Sum(f, S) ==
    IF S = {} THEN 0
    ELSE LET x == CHOOSE y \in S : TRUE IN f[x] + Sum(f, S \ {x})

\* the record has the field (a record of a table without the column has not)
Present(row, col) == col \in DOMAIN row /\ ~isna(row[col])

KeyPresent(row, group_by) == group_by = None \/ Present(row, group_by)

KeyOf(row, group_by) == IF group_by = None THEN <<"All Time">> ELSE row[group_by]

\* the records of group g
Members(rows, group_by, g) ==
    {i \in 1..Len(rows) :
        KeyPresent(rows[i], group_by) /\ KeyOf(rows[i], group_by) = g}

\* the records of group g a length-weighted metric is computed from
Qualifying(rows, group_by, g, col) ==
    {i \in Members(rows, group_by, g) :
        Present(rows[i], col) /\ Present(rows[i], "Length (minutes)")}

Minutes(rows, S) == Sum([i \in S |-> rows[i]["Length (minutes)"][1]], S)

Total(rows, S, col) == Sum([i \in S |-> rows[i][col][1]], S)

RatioColumns ==
    {"Output per Minute", "Calories per Minute", "Avg. Heartrate",
     "Avg. Speed (mph)", "Avg. Cadence (RPM)"}

\* the column of the records a ratio column is computed from
MetricOf(c) ==
    CASE c = "Output per Minute" -> "Total Output"
      [] c = "Calories per Minute" -> "Calories Burned"
      [] OTHER -> c

\* the rows without row i
Without(rows, i) == SubSeq(rows, 1, i - 1) \o SubSeq(rows, i + 1, Len(rows))

\* a float is the number n/d
IsRatio(x, n, d) == x[2] > 0 /\ x[1] * d = n * x[2]

----------------------------------------------------------------------------
(* C1 *)

\* C1: in every aggregation, the total_workouts of the groups sum to the
\* number of records whose group key is present; each group counts exactly
\* the records keyed to it, so a record with an absent key is counted in no
\* group; without a grouping field the only group is "All Time" and the sum
\* is the number of records.
C1_TotalWorkoutsCountKeyedRecords ==
    \A k \in Computed :
        LET agg == session_state[k].aggregated_df
            gb == session_state[k].group_by
            rows == Records
            total == Sum([g \in DOMAIN agg |-> agg[g]["Total Workouts"][1]],
                         DOMAIN agg)
        IN /\ total = Cardinality({i \in 1..Len(rows) : KeyPresent(rows[i], gb)})
           /\ \A g \in DOMAIN agg :
                agg[g]["Total Workouts"] = Float(Cardinality(Members(rows, gb, g)))
           /\ gb = None =>
                /\ DOMAIN agg \subseteq {<<"All Time">>}
                /\ total = Len(rows)

\* an aggregation by instructor over records of which one has no instructor
\* and another has one, and the all-time aggregation beside it
C1_Witness ==
    /\ {"workouts_aggregation_all_time", "workouts_aggregation_by_instructor"}
          \subseteq Computed
    /\ \E i, j \in 1..Len(Records) :
          /\ ~Present(Records[i], "Instructor Name")
          /\ Present(Records[j], "Instructor Name")

----------------------------------------------------------------------------
(* C2 *)

\* what record i of the records changes in its group's summary: the summary
\* with the record against the summary of the records without it
\* (Before(c) is NaN when the record is the only one of its group)
ContributesOnlyTo(k, i, columns) ==
    LET agg == session_state[k].aggregated_df
        gb == session_state[k].group_by
        rows == Records
        g == KeyOf(rows[i], gb)
        df == frames[session_state["workouts_df"]]
        other == Aggregation([df EXCEPT !.rows = Without(rows, i)], gb).aggregated_df
    IN \A c \in SummaryColumns \ columns :
          agg[g][c] = (IF g \in DOMAIN other THEN other[g][c] ELSE NaN)

\* record i is counted in its group's total_workouts
CountedOnce(k, i) ==
    LET agg == session_state[k].aggregated_df
        gb == session_state[k].group_by
        rows == Records
        g == KeyOf(rows[i], gb)
        df == frames[session_state["workouts_df"]]
        other == Aggregation([df EXCEPT !.rows = Without(rows, i)], gb).aggregated_df
    IN agg[g]["Total Workouts"] =
          Float(1 + (IF g \in DOMAIN other THEN other[g]["Total Workouts"][1] ELSE 0))

\* record i adds its distance, when it has one, to its group's total_distance
DistanceAdded(k, i) ==
    LET agg == session_state[k].aggregated_df
        gb == session_state[k].group_by
        rows == Records
        g == KeyOf(rows[i], gb)
        df == frames[session_state["workouts_df"]]
        other == Aggregation([df EXCEPT !.rows = Without(rows, i)], gb).aggregated_df
        before == IF g \in DOMAIN other THEN other[g]["Total Distance"] ELSE NaN
    IN agg[g]["Total Distance"] =
          (IF ~Present(rows[i], "Distance (mi)") THEN before
           ELSE Float(rows[i]["Distance (mi)"][1]
                        + (IF isna(before) THEN 0 ELSE before[1])))

\* the records without a length that have a group in aggregation k
LengthAbsent(k) ==
    {i \in 1..Len(Records) :
        /\ ~Present(Records[i], "Length (minutes)")
        /\ KeyPresent(Records[i], session_state[k].group_by)}

\* C2 as stated: a record whose length_minutes is absent is counted in its
\* group's total_workouts and changes no other summary field of the group.
C2_AbsentLengthOnlyCounts ==
    \A k \in Computed : \A i \in LengthAbsent(k) :
        /\ CountedOnce(k, i)
        /\ ContributesOnlyTo(k, i, {"Total Workouts"})

\* C2 amended: a record whose length_minutes is absent is counted in its
\* group's total_workouts, adds its distance (when present) to the group's
\* total_distance, and changes no other summary field: not total_minutes,
\* total_output, total_calories, nor any ratio or weighted average.
C2_AbsentLengthCountsAndDistance ==
    \A k \in Computed : \A i \in LengthAbsent(k) :
        /\ CountedOnce(k, i)
        /\ DistanceAdded(k, i)
        /\ ContributesOnlyTo(k, i, {"Total Workouts", "Total Distance"})

\* a record without a length but with calories, output, heartrate, speed,
\* cadence and distance, in a group with a record that has a length
C2_Witness ==
    \E k \in Computed : \E i \in LengthAbsent(k) :
        /\ \A c \in {"Distance (mi)", "Total Output", "Calories Burned",
                     "Avg. Heartrate", "Avg. Speed (mph)", "Avg. Cadence (RPM)"} :
              Present(Records[i], c) /\ Records[i][c][1] > 0
        /\ \E j \in Members(Records, session_state[k].group_by,
                            KeyOf(Records[i], session_state[k].group_by)) :
              Present(Records[j], "Length (minutes)")
                 /\ Records[j]["Length (minutes)"][1] > 0

----------------------------------------------------------------------------
(* C3 *)

\* C3: in every group, a ratio field whose qualifying minutes sum to zero
\* (no record qualifies, or every qualifying record has length 0) is absent.
C3_ZeroMinutesGiveAbsentRatio ==
    \A k \in Computed :
        LET agg == session_state[k].aggregated_df
            gb == session_state[k].group_by
        IN \A g \in DOMAIN agg : \A c \in RatioColumns :
              Minutes(Records, Qualifying(Records, gb, g, MetricOf(c))) = 0
                 => agg[g][c] = NaN

----------------------------------------------------------------------------
(* C4 *)

\* total and ratio of a metric col of group g are those of its qualifying
\* records (the ratio wherever the qualifying minutes are not zero)
SumAndRatioOf(agg, gb, g, col, totalColumn, ratioColumn) ==
    LET S == Qualifying(Records, gb, g, col)
    IN /\ agg[g][totalColumn] = Float(Total(Records, S, col))
       /\ Minutes(Records, S) # 0 =>
             IsRatio(agg[g][ratioColumn], Total(Records, S, col), Minutes(Records, S))

\* lengths [30, 60, absent] with calories [300, 900, 500] give 3 workouts,
\* 90 minutes, 1200 calories and 1200/90 calories per minute
ExampleHolds ==
    (raw_workouts = ExampleTable /\ "workouts_aggregation_all_time" \in Computed) =>
        LET s == session_state["workouts_aggregation_all_time"].aggregated_df[<<"All Time">>]
        IN /\ s["Total Workouts"] = Float(3)
           /\ s["Total Minutes"] = Float(90)
           /\ s["Total Calories"] = Float(1200)
           /\ IsRatio(s["Calories per Minute"], 1200, 90)

\* C4 as stated: in every group, total_calories is the sum of calories_burned
\* over the records where calories_burned and length_minutes are both
\* present, and calories_per_minute is that sum over the sum of their
\* length_minutes; likewise total_output and output_per_minute.
C4_TotalsAreSumsOverQualifying ==
    /\ \A k \in Computed :
          LET agg == session_state[k].aggregated_df
              gb == session_state[k].group_by
          IN \A g \in DOMAIN agg :
                /\ SumAndRatioOf(agg, gb, g, "Calories Burned",
                                 "Total Calories", "Calories per Minute")
                /\ SumAndRatioOf(agg, gb, g, "Total Output",
                                 "Total Output", "Output per Minute")
    /\ ExampleHolds

\* C4 amended: in every group with at least one record where calories_burned
\* and length_minutes are both present, total_calories is the sum of
\* calories_burned over those records, and calories_per_minute is that sum
\* over the sum of their length_minutes when that is not zero; in a group
\* with no such record total_calories and calories_per_minute are absent,
\* not 0.  Likewise total_output and output_per_minute.
C4_TotalsAreSumsWhereSomeQualify ==
    /\ \A k \in Computed :
          LET agg == session_state[k].aggregated_df
              gb == session_state[k].group_by
          IN \A g \in DOMAIN agg :
                \A m \in {<<"Calories Burned", "Total Calories", "Calories per Minute">>,
                          <<"Total Output", "Total Output", "Output per Minute">>} :
                   IF Qualifying(Records, gb, g, m[1]) = {}
                   THEN agg[g][m[2]] = NaN /\ agg[g][m[3]] = NaN
                   ELSE SumAndRatioOf(agg, gb, g, m[1], m[2], m[3])
    /\ ExampleHolds

\* the example's all-time aggregation
C4_Witness ==
    /\ raw_workouts = ExampleTable
    /\ "workouts_aggregation_all_time" \in Computed

----------------------------------------------------------------------------
(* C5 *)

\* every record of group g has the same length and the same value of col
Uniform(rows, gb, g, col) ==
    /\ \A i \in Members(rows, gb, g) :
          Present(rows[i], "Length (minutes)") /\ Present(rows[i], col)
    /\ \A i, j \in Members(rows, gb, g) :
          /\ rows[i]["Length (minutes)"] = rows[j]["Length (minutes)"]
          /\ rows[i][col] = rows[j][col]

AveragedColumns == {"Avg. Heartrate", "Avg. Speed (mph)", "Avg. Cadence (RPM)"}

\* C5 as stated: in a group whose records all have the same length m and the
\* same metric value v, the length-weighted average of the metric is v, for
\* every m and v.
C5_UniformAverageIsValue ==
    \A k \in Computed :
        LET agg == session_state[k].aggregated_df
            gb == session_state[k].group_by
        IN \A g \in DOMAIN agg : \A c \in AveragedColumns :
              Uniform(Records, gb, g, c) =>
                 \A i \in Members(Records, gb, g) : agg[g][c] = Records[i][c]

\* C5 amended: in a group whose records all have the same length m and the
\* same metric value v, the length-weighted average of the metric is v when
\* m is not 0, and absent when m is 0.
C5_UniformAverageIsValueUnlessZeroLength ==
    \A k \in Computed :
        LET agg == session_state[k].aggregated_df
            gb == session_state[k].group_by
        IN \A g \in DOMAIN agg : \A c \in AveragedColumns :
              Uniform(Records, gb, g, c) =>
                 \A i \in Members(Records, gb, g) :
                    agg[g][c] = (IF Records[i]["Length (minutes)"] = Float(0)
                                 THEN NaN ELSE Records[i][c])

\* a group of MaxRows records of the same length above 1 and the same
\* heartrate, speed and cadence above 1
C5_Witness ==
    \E k \in Computed :
        LET agg == session_state[k].aggregated_df
            gb == session_state[k].group_by
        IN \E g \in DOMAIN agg :
              /\ Cardinality(Members(Records, gb, g)) >= MaxRows
              /\ \A c \in AveragedColumns :
                    /\ Uniform(Records, gb, g, c)
                    /\ \A i \in Members(Records, gb, g) :
                          /\ Records[i][c][1] > 1
                          /\ Records[i]["Length (minutes)"][1] > 1

----------------------------------------------------------------------------
(* C6 *)

\* the Monday that begins the ISO week of the date of t
IsoWeekStart(t) ==
    LET o == ToOrdinal(t[1], t[2], t[3]) IN <<o - Weekday(o)>>

\* C6: the week key of every record with a valid timestamp is the Monday
\* that begins the ISO week of the timestamp (so a late December day of ISO
\* week 1 of the next year has the Monday of that week, in its own year's
\* last days, as its key).
C6_WeekKeyIsIsoWeekMonday ==
    "workouts_df" \in DOMAIN session_state =>
        \A i \in 1..Len(Records) :
            "c_week" \in DOMAIN Records[i] =>
                Records[i]["c_week"] = IsoWeekStart(Records[i]["c_datetime"])

----------------------------------------------------------------------------
(* C7 *)

\* the record's timestamp is unparseable or missing
BadTimestamp(row) ==
    /\ "Workout Timestamp" \in DOMAIN row
    /\ row["Workout Timestamp"] \in {Unparseable, NaN}

\* aggregation k counts record i in the group of its key
CountedIn(k, i) ==
    /\ k \in Computed
    /\ LET agg == session_state[k].aggregated_df
           gb == session_state[k].group_by
       IN KeyPresent(Records[i], gb) =>
             /\ KeyOf(Records[i], gb) \in DOMAIN agg
             /\ agg[KeyOf(Records[i], gb)]["Total Workouts"] =
                   Float(Cardinality(Members(Records, gb, KeyOf(Records[i], gb))))

\* C7: once the run over a table with all its columns has ended, no error
\* was raised, and every record with an unparseable or missing timestamp has
\* an absent timestamp and absent day, week, month and year keys, and is
\* counted in the all-time, the instructor and the class-length aggregation.
C7_BadTimestampRecordIsKept ==
    (/\ pc \in {"done", "failed"}
     /\ "workouts_df" \in DOMAIN session_state
     /\ raw_workouts.columns = RawColumns) =>
        \A i \in 1..Len(Records) :
            BadTimestamp(Records[i]) =>
                /\ error = NoError
                /\ \A c \in {"c_datetime", "c_day", "c_week", "c_month", "c_year"} :
                      c \in DOMAIN Records[i] /\ isna(Records[i][c])
                /\ \A k \in {"workouts_aggregation_all_time",
                             "workouts_aggregation_by_instructor",
                             "workouts_aggregation_by_class_length"} :
                      CountedIn(k, i)

----------------------------------------------------------------------------
(* C8 *)

\* request i groups by a field the normalized table does not have
UnknownField(i) ==
    /\ Requests[i].group_by # None
    /\ Requests[i].group_by \notin frames[session_state["workouts_df"]].columns

\* C8: once the run over a normalized table has ended, a request whose
\* group_by is not a field of the table has failed with
\* InvalidGroupFieldError carrying the field name, whatever the table holds,
\* and every other request has been computed.
C8_UnknownGroupFieldIsNamedError ==
    (/\ pc \in {"done", "failed"}
     /\ "workouts_df" \in DOMAIN session_state
     /\ DerivedColumns \subseteq frames[session_state["workouts_df"]].columns) =>
        \A i \in 1..Len(Requests) :
            UnknownField(i) =>
                /\ error = [type |-> "InvalidGroupFieldError",
                            arg |-> Requests[i].group_by]
                /\ Requests[i].key \notin Computed
                /\ \A j \in 1..Len(Requests) :
                      ~UnknownField(j) => Requests[j].key \in Computed

----------------------------------------------------------------------------
(* C9 *)

\* C9: a record's calories_per_minute and output_per_minute are absent
\* whenever the numerator is absent, length_minutes is absent, or
\* length_minutes is zero.
C9_DerivedMetricsAbsentOnZeroLength ==
    "workouts_df" \in DOMAIN session_state =>
        \A i \in 1..Len(Records) :
            \A m \in {<<"c_calories_per_minute", "Calories Burned">>,
                      <<"c_output_per_minute", "Total Output">>} :
                (/\ m[1] \in DOMAIN Records[i]
                 /\ \/ ~Present(Records[i], m[2])
                    \/ ~Present(Records[i], "Length (minutes)")
                    \/ Records[i]["Length (minutes)"] = Float(0)) =>
                    Records[i][m[1]] = NaN

----------------------------------------------------------------------------
(* C10 *)

OnlyAddsDerivedColumns ==
    LET id == session_state["workouts_df"]
        before == frames[id]
        after == frames'[id]
    IN /\ DOMAIN frames' = DOMAIN frames
       /\ \A o \in DOMAIN frames : o # id => frames'[o] = frames[o]
       /\ session_state'["workouts_df"] = id
       /\ before.columns \subseteq after.columns
       /\ after.columns \ before.columns \subseteq DerivedColumns
       /\ Len(after.rows) = Len(before.rows)
       /\ \A i \in 1..Len(before.rows) : \A c \in before.columns :
             after.rows[i][c] = before.rows[i][c]

----------------------------------------------------------------------------
(* C11 *)

\* the run read a session-state entry that was not there
MissingEntry(k) == error = KeyError(k)

\* C11: in every state of a session, whenever "workouts_df" is on the
\* session state all seven "workouts_aggregation_*" entries are there too,
\* and no page has failed reading one of them.
C11_WorkoutsImplyAggregations ==
    "workouts_df" \in DOMAIN session_state =>
        /\ AggregationKeys \subseteq DOMAIN session_state
        /\ \A k \in AggregationKeys : ~MissingEntry(k)

----------------------------------------------------------------------------
(* C12 *)

StatsPages ==
    {"All-Time Stats", "Stats By Instructor", "Stats By Year",
     "Stats By Month", "Stats By Week", "Stats By Day"}

\* C12: a run that rendered one of the six stats pages while no workouts
\* were on the session state ended at the "Workouts have not been uploaded"
\* notice, without an exception.
C12_StatsPageWithoutWorkoutsShowsNotice ==
    (/\ "app_mode" \in DOMAIN session_state
     /\ session_state["app_mode"] \in StatsPages
     /\ "workouts_df" \notin DOMAIN session_state) =>
        pc = "notice" /\ error = NoError

====
